---- MODULE Spec2Model ----
(***************************************************************************)
(* Model of src/part2.py: a FastAPI service that loads a TorchScript model *)
(* at startup (lifespan) and scores transactions on POST /predict.         *)
(*                                                                         *)
(* Numbers.  Feature values are integers (an amount of 500.0 is the number *)
(* 500).  Tensors are float32 (part2.py:61, dtype=torch.float32): a tensor *)
(* element holding an integer value is written as that integer after       *)
(* rounding to 24 significant bits; the probability, which is not an       *)
(* integer, is a record [k, m, e] standing for m * 2^e.                    *)
(***************************************************************************)
EXTENDS Integers, Sequences, FiniteSets, TLC

\* ------------------------------------------------------------------------
\* float32 arithmetic (binary32, round-to-nearest-even), non-negative values

\* Significand width of float32, the dtype of every tensor of predict.
SigBits == 24
\* Exponent of the least subnormal of float32 (2^-149).
MinExp == 0 - 149
\* Largest exponent e of a finite float32 m * 2^e with 2^23 <= m < 2^24.
MaxExp == 104

RECURSIVE Pow2(_)
Pow2(n) == IF n <= 0 THEN 1 ELSE 2 * Pow2(n - 1)

RECURSIVE BitLen(_)
BitLen(n) == IF n = 0 THEN 0 ELSE 1 + BitLen(n \div 2)

Fin(m, e) == [k |-> "fin", m |-> m, e |-> e]
Inf32 == [k |-> "inf", m |-> 0, e |-> 0]
NaN32 == [k |-> "nan", m |-> 0, e |-> 0]
Zero32 == Fin(0, MinExp)
One32 == Fin(Pow2(SigBits - 1), 0 - (SigBits - 1))
Half32 == Fin(Pow2(SigBits - 1), 0 - SigBits)

\* The float32 nearest to (n + s) * 2^e, where 0 <= s < 1 and s > 0 iff sticky
\* (ties go to the even significand; a result past the largest finite value
\* is infinity; a result below 2^-126 is a subnormal or zero).
Round32(n, e, sticky) ==
    IF n = 0 THEN Zero32
    ELSE LET et    == IF e + BitLen(n) - SigBits < MinExp THEN MinExp
                      ELSE e + BitLen(n) - SigBits
             shift == et - e
         IN  IF shift <= 0
             THEN IF et > MaxExp THEN Inf32 ELSE Fin(n * Pow2(0 - shift), et)
             ELSE LET q    == n \div Pow2(shift)
                      r    == n % Pow2(shift)
                      half == Pow2(shift - 1)
                      up   == r > half \/ (r = half /\ (sticky \/ q % 2 = 1))
                      m    == IF up THEN q + 1 ELSE q
                      m2   == IF m = Pow2(SigBits) THEN Pow2(SigBits - 1) ELSE m
                      e2   == IF m = Pow2(SigBits) THEN et + 1 ELSE et
                  IN  IF e2 > MaxExp THEN Inf32 ELSE Fin(m2, e2)

\* a + b for finite a >= b >= 0: b is aligned to a with three guard bits and
\* a sticky bit, then the sum is rounded.
AddOrdered32(a, b) ==
    LET d   == a.e - b.e
        b8  == b.m * 8
        sh  == IF d > 27 THEN 0 ELSE b8 \div Pow2(d)
        st  == IF d > 27 THEN b.m # 0 ELSE b8 % Pow2(d) # 0
    IN  Round32(a.m * 8 + sh, a.e - 3, st)

Add32(a, b) ==
    IF a.k = "nan" \/ b.k = "nan" THEN NaN32
    ELSE IF a.k = "inf" \/ b.k = "inf" THEN Inf32
    ELSE IF a.m = 0 THEN b
    ELSE IF b.m = 0 THEN a
    ELSE IF a.e >= b.e THEN AddOrdered32(a, b) ELSE AddOrdered32(b, a)

\* Long division: k more quotient bits of r / m, given the quotient q so far.
RECURSIVE LongDiv(_, _, _, _)
LongDiv(q, r, m, k) ==
    IF k = 0 THEN <<q, r>>
    ELSE IF 2 * r >= m THEN LongDiv(2 * q + 1, 2 * r - m, m, k - 1)
    ELSE LongDiv(2 * q, 2 * r, m, k - 1)

\* 1 / a for a >= 0.
Recip32(a) ==
    IF a.k = "nan" THEN NaN32
    ELSE IF a.k = "inf" THEN Zero32
    ELSE IF a.m = 0 THEN Inf32
    ELSE LET one == Pow2(SigBits - 1)
             qr  == LongDiv(one \div a.m, one % a.m, a.m, SigBits + 2)
         IN  Round32(qr[1], 0 - (2 * SigBits + 1) - a.e, qr[2] # 0)

\* a > b for non-negative values; every comparison with NaN is false.
Gt32(a, b) ==
    IF a.k = "nan" \/ b.k = "nan" THEN FALSE
    ELSE IF a.k = "inf" THEN b.k # "inf"
    ELSE IF b.k = "inf" THEN FALSE
    ELSE IF a.m = 0 THEN FALSE
    ELSE IF b.m = 0 THEN TRUE
    ELSE a.e + BitLen(a.m) > b.e + BitLen(b.m)
         \/ (a.e + BitLen(a.m) = b.e + BitLen(b.m)
             /\ a.m * Pow2(SigBits - BitLen(a.m)) > b.m * Pow2(SigBits - BitLen(b.m)))


\* ------------------------------------------------------------------------
\* Values of tensors and of the model's output

\* A logit returned by the model: an integer-valued float32.
Logit(v) == [k |-> "fin", v |-> v]

\* exp of float32: e^v rounded to float32, for the arguments the model's
\* logits lead to.  e^89 exceeds the largest finite float32 (3.4e38), and
\* e^-104 is below half the least subnormal (2^-150).
ExpTable ==
    (0 :> One32) @@ ((0 - 1) :> Fin(12343986, 0 - 25))
        @@ ((0 - 17) :> Fin(11652889, 0 - 48))

Exp32(x) ==
    IF x.k = "nan" THEN NaN32
    ELSE IF x.v >= 89 THEN Inf32
    ELSE IF x.v <= 0 - 104 THEN Zero32
    ELSE ExpTable[x.v]

Neg(x) == [x EXCEPT !.v = 0 - x.v]

\* A plausible slip: the "1 +" of the logistic function left out.
SigmoidNoOne(x) == Recip32(Exp32(Neg(x)))

\* torch.sigmoid on a float32 tensor: 1 / (1 + exp(-x)), each operation
\* rounded to float32.
Sigmoid32(x) == Recip32(Add32(One32, Exp32(Neg(x))))

\* The integer value of a finite float32 that holds an integer.
IntValue(f) == IF f.e >= 0 THEN f.m * Pow2(f.e) ELSE f.m \div Pow2(0 - f.e)

\* Conversion of a number to a float32 tensor element (dtype=torch.float32).
ToFloat32(n) ==
    IF n < 0 THEN 0 - IntValue(Round32(0 - n, 0, FALSE))
    ELSE IntValue(Round32(n, 0, FALSE))

\* float32 subtraction and division of tensor elements.  The quotient is
\* exact whenever b divides a, which is so for every std the program sets.
Sub32(a, b) == ToFloat32(a - b)
Div32(a, b) == ToFloat32(a \div b)

\* ------------------------------------------------------------------------
\* Requests

\* Concurrent requests in flight.
NumReq == 2
Requests == 1 .. NumReq

Fields == {"amount", "time_of_day", "mismatch", "frequency"}

\* class TransactionFeatures: the declared type of each field.
FieldType == [amount |-> "float", time_of_day |-> "int",
              mismatch |-> "int", frequency |-> "int"]

\* JSON values of a request body: the integer n, the float n.0, the string
\* spelling the number n, a string that spells no number, the integer
\* 10^400 (it passes as an int and is too large for a float), and null.
I(n) == [t |-> "int", v |-> n]
F(n) == [t |-> "float", v |-> n]
NumStr(n) == [t |-> "numstr", v |-> n]
Str == [t |-> "str", v |-> 0]
Big == [t |-> "bigint", v |-> 0]
Null == [t |-> "null", v |-> 0]

Good == [amount |-> F(500), time_of_day |-> I(14), mismatch |-> I(1), frequency |-> I(3)]
Without(b, f) == [g \in (DOMAIN b) \ {f} |-> b[g]]
WithExtra(b, f, x) == [g \in (DOMAIN b) \cup {f} |-> IF g = f THEN x ELSE b[g]]
EmptyBody == Without(Without(Without(Without(Good, "amount"), "time_of_day"), "mismatch"), "frequency")

\* The least positive integer that float32 does not represent (2^24 + 1).
LargeCount == Pow2(SigBits) + 1

Bodies ==
    { Good,
      [Good EXCEPT !.frequency = I(LargeCount)],
      [Good EXCEPT !.amount = NumStr(500)],
      [Good EXCEPT !.amount = Str],
      [Good EXCEPT !.time_of_day = Big],
      [Good EXCEPT !.mismatch = Null],
      Without(Good, "mismatch"),
      WithExtra(Good, "note", Str) }

\* Validation of the body against TransactionFeatures, as pydantic does it
\* by default (the class sets no strict mode and no extra="forbid"): a field
\* must be present; a float field takes a number or a string spelling one;
\* an int field takes an integer, a float with no fractional part or a
\* string spelling an integer; keys that are no field are dropped.
Coercible(type, x) ==
    IF type = "float" THEN x.t \in {"int", "float", "numstr"}
    ELSE x.t \in {"int", "float", "numstr", "bigint"}

Valid(body) ==
    \A f \in Fields : f \in DOMAIN body /\ Coercible(FieldType[f], body[f])

\* The validated TransactionFeatures object: each field's number (big: 10^400).
Feature(x) == [big |-> x.t = "bigint", v |-> x.v]
TransactionFeatures(body) == [f \in Fields |-> Feature(body[f])]
NoFeatures == [f \in Fields |-> Feature(Null)]

\* Responses.
NoResp == [status |-> 0, detail |-> "", probability |-> Zero32, is_fraudulent |-> FALSE]
ValidationFailure == [NoResp EXCEPT !.status = 422, !.detail = "validation"]
HTTPException503 == [NoResp EXCEPT !.status = 503, !.detail = "Model is not loaded."]
\* An exception that leaves predict uncaught becomes the server's 500.
InternalServerError == [NoResp EXCEPT !.status = 500, !.detail = "Internal Server Error"]

\* is_fraudulent with ">=" in place of ">".
IsFraudulentGe(p) == ~ Gt32(Half32, p)

\* is_fraudulent=(probability > 0.5)
IsFraudulent(p) == Gt32(p, Half32)

PredictionResponse(p) ==
    [NoResp EXCEPT !.status = 200, !.probability = p, !.is_fraudulent = IsFraudulent(p)]

\* The feature list with two fields swapped.
FeatureListSwapped(f) == <<f.amount, f.mismatch, f.time_of_day, f.frequency>>

\* [features.amount, features.time_of_day, features.mismatch, features.frequency]
FeatureList(f) == <<f.amount, f.time_of_day, f.mismatch, f.frequency>>

\* What the forward pass of the loaded artifact can do: raise, or return one
\* of these logits (the artifact is opaque; any float32 is possible).
Logits == {Logit(0 - 100), Logit(0), Logit(1), Logit(17)}
ForwardOutcomes ==
    {[raises |-> TRUE, logit |-> Logit(0)]}
        \cup {[raises |-> FALSE, logit |-> l] : l \in Logits}

\* ------------------------------------------------------------------------
\* State

VARIABLES
    phase,     \* "init", "serving", "stopped", or "crashed" (startup raised)
    model,     \* app.state.model: "unset", "None" or "ScriptModule"
    mean,      \* app.state.mean  (<<>> while unset)
    std,       \* app.state.std   (<<>> while unset)
    startup,   \* what the load at startup did: [at, exc]
    req        \* the requests in flight

vars == <<phase, model, mean, std, startup, req>>

IdleReq ==
    [pc |-> "idle", body |-> EmptyBody, features |-> NoFeatures, model |-> "unset",
     called |-> "", arg |-> <<>>,
     error |-> "none", logit |-> Logit(0), resp |-> NoResp]

Init ==
    /\ phase = "init"
    /\ model = "unset"
    /\ mean = <<>>
    /\ std = <<>>
    /\ startup = [at |-> "pending", exc |-> "none"]
    /\ req = [r \in Requests |-> IdleReq]

\* ------------------------------------------------------------------------
\* lifespan

\* Python's exception classes: each class with its bases.
Bases ==
    [FileNotFoundError |-> {"FileNotFoundError", "OSError", "Exception", "BaseException"},
     RuntimeError |-> {"RuntimeError", "Exception", "BaseException"}]
IsInstance(exc, cls) == cls \in Bases[exc]

\* What torch.jit.load and model.eval() can do.
LoadOutcomes == {"ok", "FileNotFoundError", "RuntimeError"}
EvalOutcomes == {"ok", "RuntimeError"}

\* lifespan with its second handler missing.
CaughtOnlyNotFound(exc) == IsInstance(exc, "FileNotFoundError")

\* except FileNotFoundError: ...  except Exception as e: ...
Caught(exc) == IsInstance(exc, "FileNotFoundError") \/ IsInstance(exc, "Exception")

\* lifespan up to its yield.
lifespan_startup ==
    /\ phase = "init"
    /\ \E load \in LoadOutcomes, ev \in EvalOutcomes :
         LET at  == IF load # "ok" THEN "load" ELSE IF ev # "ok" THEN "eval" ELSE "none"
             exc == IF load # "ok" THEN load ELSE IF ev # "ok" THEN ev ELSE "none"
         IN  /\ startup' = [at |-> at, exc |-> exc]
             /\ IF exc = "none" \/ Caught(exc)
                THEN /\ model' = IF exc = "none" THEN "ScriptModule" ELSE "None"
                     /\ mean' = <<0, 0, 0, 0>>
                     /\ std' = <<1, 1, 1, 1>>
                     /\ phase' = "serving"
                ELSE /\ phase' = "crashed"
                     /\ UNCHANGED <<model, mean, std>>
    /\ UNCHANGED req

\* lifespan after its yield.
lifespan_shutdown ==
    /\ phase = "serving"
    /\ model' = "None"
    /\ phase' = "stopped"
    /\ UNCHANGED <<mean, std, startup, req>>

\* ------------------------------------------------------------------------
\* POST /predict

\* The request arrives while the service is up; its body is validated
\* against TransactionFeatures before predict is called.
receive(r) ==
    /\ phase = "serving"
    /\ req[r].pc = "idle"
    /\ \E body \in Bodies :
         req' = [req EXCEPT ![r] =
                   IF Valid(body)
                   THEN [IdleReq EXCEPT !.pc = "called", !.body = body,
                                        !.features = TransactionFeatures(body)]
                   ELSE [IdleReq EXCEPT !.pc = "done", !.body = body,
                                        !.resp = ValidationFailure]]
    /\ UNCHANGED <<phase, model, mean, std, startup>>

\* "if model is None" tested against the wrong sentinel.
IsUnset(m) == m = "unset"

\* model is None
IsNone(m) == m = "None"

\* predict, lines 57-59: read app.state.model; 503 when it is None.
predict_read(r) ==
    /\ req[r].pc = "called"
    /\ req' = [req EXCEPT ![r] =
                 IF IsNone(model)
                 THEN [@ EXCEPT !.pc = "done", !.model = model, !.resp = HTTPException503]
                 ELSE [@ EXCEPT !.pc = "scoring", !.model = model]]
    /\ UNCHANGED <<phase, model, mean, std, startup>>

\* The scoring call made on app.state.model read again, not on the local.
GlobalModel(r) == model

\* model(n_tensor): the callee is the local variable read at line 57.
Callee(r) == req[r].model

\* (tensor - app.state.mean) / app.state.std, elementwise
Normalise(tensor) == [i \in 1 .. 4 |-> Div32(Sub32(tensor[i], mean[i]), std[i])]

\* predict, lines 61-66, for one outcome of the forward pass.
Scored(r, out) ==
    LET list   == FeatureList(req[r].features)
        callee == Callee(r)
        at     == [req[r] EXCEPT !.pc = "done"]
    IN  IF \E i \in 1 .. 4 : list[i].big
        THEN \* torch.tensor raises on a number no float holds
             [at EXCEPT !.error = "tensor", !.resp = InternalServerError]
        ELSE LET tensor   == [i \in 1 .. 4 |-> ToFloat32(list[i].v)]
                 n_tensor == Normalise(tensor)
             IN  IF IsNone(callee)
                 THEN \* calling None raises TypeError
                      [at EXCEPT !.called = callee, !.error = "forward",
                                 !.resp = InternalServerError]
                 ELSE IF out.raises
                 THEN [at EXCEPT !.called = callee, !.arg = n_tensor,
                                 !.error = "forward", !.resp = InternalServerError]
                 ELSE [at EXCEPT !.called = callee, !.arg = n_tensor,
                                 !.logit = out.logit,
                                 !.resp = PredictionResponse(Sigmoid32(out.logit))]

\* predict that drops the model when scoring fails.
predict_score_drops(r) ==
    /\ req[r].pc = "scoring"
    /\ \E out \in ForwardOutcomes : req' = [req EXCEPT ![r] = Scored(r, out)]
    /\ model' = IF req'[r].resp.status = 500 THEN "None" ELSE model
    /\ UNCHANGED <<phase, mean, std, startup>>

predict_score(r) ==
    /\ req[r].pc = "scoring"
    /\ \E out \in ForwardOutcomes : req' = [req EXCEPT ![r] = Scored(r, out)]
    /\ UNCHANGED <<phase, model, mean, std, startup>>

\* The response is sent and the request's objects are discarded.
respond(r) ==
    /\ req[r].pc = "done"
    /\ req' = [req EXCEPT ![r] = IdleReq]
    /\ UNCHANGED <<phase, model, mean, std, startup>>

Next ==
    \/ lifespan_startup
    \/ lifespan_shutdown
    \/ \E r \in Requests : receive(r)
    \/ \E r \in Requests : predict_read(r)
    \/ \E r \in Requests : predict_score(r)
    \/ \E r \in Requests : respond(r)

Spec == Init /\ [][Next]_vars

\* ------------------------------------------------------------------------
\* Properties

Answered(r) == req[r].pc = "done"
Status(r) == req[r].resp.status
\* The request's predict body has read app.state.model.
HasRead(r) == req[r].model # "unset"
\* The request has called the model (or tried to).
HasCalled(r) == req[r].called # ""
LoadFailed == startup.at \in {"load", "eval"}
ClientError(st) == 400 <= st /\ st <= 499

\* C1: when the load at startup failed, every predict call answers 503
\* "Model is not loaded." and none reaches the scoring lines; and no step
\* takes app.state.model from None to anything else.
C1_AbsentModelAlways503 ==
    /\ [](LoadFailed =>
            \A r \in Requests :
                /\ req[r].pc # "scoring"
                /\ ~ HasCalled(r)
                /\ HasRead(r) => (Answered(r) /\ req[r].resp = HTTPException503))
    /\ [][model = "None" => model' = "None"]_vars

C1_Witness ==
    /\ startup.at = "load"
    /\ \E r \in Requests : HasRead(r) /\ Answered(r) /\ Status(r) = 503

\* C2: startup lets no exception escape: from "init" the service always goes
\* to "serving" with app.state.model either the loaded module or None.
C2_StartupNeverRaises ==
    /\ [](phase # "crashed")
    /\ [][phase = "init" =>
            (phase' = "serving" /\ model' \in {"ScriptModule", "None"}
             /\ (model' = "None" <=> LoadFailed'))]_vars

C2_Witness ==
    /\ startup.exc = "RuntimeError"
    /\ startup.at = "eval"
    /\ model = "None"
    /\ \E r \in Requests : Answered(r) /\ Status(r) = 503

\* C3 (the claim as stated): an error raised in tensor construction or in
\* the forward pass reaches the caller with a client-error status.
C3_ErrorsAreClientErrors ==
    \A r \in Requests :
        (Answered(r) /\ req[r].error # "none") => ClientError(Status(r))

\* The JSON type of the value is not the declared type of the field.
WrongType(type, x) ==
    IF type = "float" THEN x.t \notin {"int", "float"}
    ELSE x.t \notin {"int", "bigint"}
Malformed(body) ==
    \E f \in Fields : f \notin DOMAIN body \/ WrongType(FieldType[f], body[f])

\* C4 (the claim as stated): a request that misses a field or carries a
\* value of the wrong type is rejected with a client error before predict
\* runs: it never reads app.state.model and never calls the model.
C4_MalformedRejected ==
    \A r \in Requests :
        (req[r].pc # "idle" /\ Malformed(req[r].body)) =>
            /\ Answered(r) /\ ClientError(Status(r))
            /\ ~ HasRead(r) /\ ~ HasCalled(r)

\* C5 (the claim as stated): a body with a key beyond the four fields is
\* rejected.
C5_ExtrasRejected ==
    \A r \in Requests :
        (req[r].pc # "idle" /\ (DOMAIN req[r].body) \ Fields # {}) =>
            (Answered(r) /\ ClientError(Status(r)))

\* p > 1/2, read off the significand and exponent of p.
AboveHalf(p) ==
    \/ p.k = "inf"
    \/ p.k = "fin" /\ p.m >= Pow2(SigBits - 1)
       /\ (p.e > 0 - SigBits \/ (p.e = 0 - SigBits /\ p.m > Pow2(SigBits - 1)))

\* C6: in every 200 response is_fraudulent is TRUE exactly when the
\* probability of that response is above 0.5; at exactly 0.5 it is FALSE.
C6_DecisionIsThreshold ==
    \A r \in Requests :
        (Answered(r) /\ Status(r) = 200) =>
            (req[r].resp.is_fraudulent <=> AboveHalf(req[r].resp.probability))

C6_Witness ==
    \E r \in Requests :
        /\ Answered(r) /\ Status(r) = 200
        /\ req[r].resp.probability = Half32
        /\ req[r].resp.is_fraudulent = FALSE

\* C7 (the claim as stated): the probability of a 200 response is strictly
\* between 0 and 1.
C7_ProbabilityStrictlyInside ==
    \A r \in Requests :
        (Answered(r) /\ Status(r) = 200) =>
            /\ Gt32(req[r].resp.probability, Zero32)
            /\ Gt32(One32, req[r].resp.probability)

\* C7 (amended): the probability of a 200 response is a finite float in the
\* closed interval [0, 1].
C7_ProbabilityInClosedUnit ==
    \A r \in Requests :
        (Answered(r) /\ Status(r) = 200) =>
            /\ req[r].resp.probability.k = "fin"
            /\ ~ Gt32(req[r].resp.probability, One32)

C7_Witness ==
    /\ \E r \in Requests :
        Answered(r) /\ Status(r) = 200 /\ req[r].resp.probability = One32
    /\ \E r \in Requests :
        Answered(r) /\ Status(r) = 200 /\ req[r].resp.probability = Zero32

\* The request made a forward pass on a tensor.
Passed(r) == req[r].arg # <<>>
Raw(r) == <<req[r].features.amount.v, req[r].features.time_of_day.v,
            req[r].features.mismatch.v, req[r].features.frequency.v>>

\* C8 (the claim as stated): the vector given to the model is the raw
\* feature vector [amount, time_of_day, mismatch, frequency], elementwise.
C8_ModelGetsRawVector ==
    \A r \in Requests : Passed(r) => req[r].arg = Raw(r)

\* C8 (amended): the i-th element given to the model is
\* (float32(v[i]) - mean[i]) / std[i] for v = [amount, time_of_day, mismatch,
\* frequency]; with mean 0 and std 1 that is v[i] rounded to float32; and
\* the probability returned is the sigmoid of the logit the model gave.
C8_ModelGetsFloat32Vector ==
    \A r \in Requests :
        Passed(r) =>
            /\ \A i \in 1 .. 4 :
                /\ req[r].arg[i] = Div32(Sub32(ToFloat32(Raw(r)[i]), mean[i]), std[i])
                /\ req[r].arg[i] = ToFloat32(Raw(r)[i])
            /\ Status(r) = 200 => req[r].resp.probability = Sigmoid32(req[r].logit)

C8_Witness ==
    \E r \in Requests :
        /\ Answered(r) /\ Status(r) = 200
        /\ Raw(r) = <<500, 14, 1, LargeCount>>
        /\ req[r].arg = <<500, 14, 1, LargeCount - 1>>

\* C9: no step of a request changes app.state.model, mean or std, and
\* while the service is up they do not change at all.
C9_PredictLeavesHostAlone ==
    [][(req' # req \/ (phase = "serving" /\ phase' = "serving"))
          => UNCHANGED <<model, mean, std>>]_vars

C9_Witness ==
    /\ phase = "serving"
    /\ model = "ScriptModule"
    /\ \E r \in Requests : Answered(r) /\ Status(r) = 200
    /\ \E r \in Requests : Answered(r) /\ Status(r) = 500 /\ req[r].error = "forward"

\* C10: under every interleaving with shutdown, a request that read None
\* answers 503 and calls nothing; a request that calls the model calls the
\* instance it read, never None; a request that reads after shutdown
\* answers 503.
C10_NeverScoresAbsentModel ==
    /\ [](\A r \in Requests :
            /\ (HasRead(r) /\ req[r].model = "None") =>
                   (Answered(r) /\ Status(r) = 503 /\ ~ HasCalled(r))
            /\ HasCalled(r) =>
                   (req[r].called = req[r].model /\ req[r].called = "ScriptModule"))
    /\ [][\A r \in Requests :
            (phase = "stopped" /\ ~ HasRead(r) /\ HasRead(r)') =>
                (Answered(r)' /\ Status(r)' = 503 /\ ~ HasCalled(r)')]_vars

\* The model was loaded; after shutdown one request that read the model
\* before it is about to score or has scored, and another, which found None,
\* read after it.
C10_Witness ==
    /\ startup.at = "none"
    /\ phase = "stopped"
    /\ \E r \in Requests :
        req[r].model = "ScriptModule" /\ req[r].pc \in {"scoring", "done"}
    /\ \E r \in Requests : HasRead(r) /\ Status(r) = 503

====
